---- MODULE Spec2Model ----
(***************************************************************************)
(* Storage-plugin registry of dlite (src/src/dlite-storage-plugins.c).     *)
(*                                                                         *)
(* The module models the file-scope state of dlite-storage-plugins.c and   *)
(* one action per public function.  The generic plugin substrate           *)
(* (utils/plugin.c, utils/fileutils.c, pathshash.c) is not part of the     *)
(* sources at hand; those helpers are modelled from the design document    *)
(* and from the doc comments of their callers.                             *)
(***************************************************************************)
EXTENDS Integers, Sequences, FiniteSets, TLC

VARIABLES
  env,                       \* process environment, fixed at start-up
  storage_plugin_info,       \* static PluginInfo *storage_plugin_info
  paths,                     \* storage_plugin_info->paths (FUPaths)
  apis,                      \* storage_plugin_info->apis, registration order
  storage_plugin_path_hash,  \* static unsigned char storage_plugin_path_hash[32]
  atexit_hooks,              \* number of atexit() registrations made
  crashed,                   \* the process was killed by an invalid access
  last,                      \* observation of the most recent public call
  errmsg,                    \* the message the most recent call handed to errx()
  iter,                      \* the DLiteStoragePluginIter objects of the caller
  threads,                   \* threads inside get_storage_plugin_info()
  scanned                    \* history: search path at the last full rescan,
                             \* recorded under SpecHistory only

vars == <<env, storage_plugin_info, paths, apis, storage_plugin_path_hash,
          atexit_hooks, crashed, last, errmsg, iter, threads, scanned>>

(***************************************************************************)
(* Bounds and the universe the inputs are drawn from.                      *)
(***************************************************************************)
MaxPaths == 2

NULL == "NULL"
INFO == "PluginInfo"
NoScan == [recorded |-> TRUE, done |-> FALSE, paths |-> <<>>]
Untracked == [recorded |-> FALSE, done |-> FALSE, paths |-> <<>>]
NoMessage == [name |-> NULL, dirs |-> <<>>, hint |-> NULL]
NoIter == <<>>
NoThreads == <<>>

\* Two directories; the second is a sub-directory of the first, so that
\* appendn() of its first two bytes names the first.
Dirs == {"/p", "/p/q"}

PathChars(d) == IF d = "/p" THEN <<"/", "p">> ELSE <<"/", "p", "/", "q">>

\* Driver names a caller may ask for.  No library reports "yaml".
Names == {"hdf5", "json", "yaml"}

\* The shared libraries found in each directory, in directory order.
\* `name` is the driver name the library reports through its entry symbol;
\* a library without the entry symbol cannot be loaded as a plugin.
DirFiles(d) ==
  IF d = "/p"
  THEN << [file |-> "/p/hdf5.so", name |-> "hdf5", loadable |-> TRUE] >>
  ELSE << [file |-> "/p/q/h5.so", name |-> "hdf5", loadable |-> TRUE],
          [file |-> "/p/q/json.so", name |-> "json", loadable |-> TRUE],
          [file |-> "/p/q/broken.so", name |-> NULL, loadable |-> FALSE] >>

InsertIndices == {-100, -2, -1, 0, 1, 100}
DeleteIndices == {-100, -2, 0, 1, 100}
TruncateLengths == {2, 4}

\* DLITE_STORAGE_PLUGIN_DIRS is unset or names one directory; dlite runs
\* from its build tree or from an installed prefix.
Environments ==
  { [dirs |-> <<>>, build_root |-> TRUE],
    [dirs |-> <<"/p/q">>, build_root |-> FALSE] }

Min(a, b) == IF a < b THEN a ELSE b
Max(a, b) == IF a < b THEN b ELSE a

(***************************************************************************)
(* Plugin substrate.                                                       *)
(***************************************************************************)

\* plugin_get_api(): lookup of `name` among the registered apis.
plugin_get_api(m, name) ==
  IF \E i \in 1..Len(m) : m[i].name = name
  THEN (CHOOSE e \in {m[i] : i \in 1..Len(m)} : e.name = name).api
  ELSE NULL

plugin_has_api(m, name) == plugin_get_api(m, name) # NULL

\* Variant: a library whose name is registered already is skipped.
register_plugin_keep_first(m, f) ==
  IF ~f.loadable \/ \E i \in 1..Len(m) : m[i].name = f.name THEN m
  ELSE Append(m, [name |-> f.name, api |-> f.file])

\* Registration of one library: a library that cannot be loaded is skipped,
\* a library whose name is registered already replaces that entry.
register_plugin(m, f) ==
  IF ~f.loadable THEN m
  ELSE IF \E i \in 1..Len(m) : m[i].name = f.name
  THEN [i \in 1..Len(m) |->
          IF m[i].name = f.name THEN [name |-> f.name, api |-> f.file] ELSE m[i]]
  ELSE Append(m, [name |-> f.name, api |-> f.file])

RECURSIVE register_files(_, _)
register_files(m, fs) ==
  IF fs = <<>> THEN m
  ELSE register_files(register_plugin(m, Head(fs)), Tail(fs))

\* plugin_load_all(): every library of every directory, in search-path order.
RECURSIVE plugin_load_all(_, _)
plugin_load_all(m, p) ==
  IF p = <<>> THEN m
  ELSE plugin_load_all(register_files(m, DirFiles(Head(p))), Tail(p))

\* plugin_unload(): the entry of `name` is removed, the others keep their order.
plugin_unload_apis(m, name) == SelectSeq(m, LAMBDA e : e.name # name)
plugin_unload_rc(m, name) == IF plugin_has_api(m, name) THEN 0 ELSE 1

\* plugin_names(): the registered names, in order.
plugin_names(m) == [i \in 1..Len(m) |-> m[i].name]

RECURSIVE unload_each(_, _)
unload_each(m, ns) ==
  IF ns = <<>> THEN m
  ELSE unload_each(plugin_unload_apis(m, Head(ns)), Tail(ns))

\* pathshash(): SHA-256 over the ordered search path.  The digest is
\* idealised as collision free: an injective code of the sequence that is
\* never the all-zero value of the zero-initialised static buffer.
DirCode(d) == IF d = "/p" THEN 1 ELSE 2

RECURSIVE pathshash(_)
pathshash(p) ==
  IF p = <<>> THEN 1
  ELSE 3 * pathshash(SubSeq(p, 1, Len(p) - 1)) + DirCode(p[Len(p)])

ZeroHash == 0

(***************************************************************************)
(* Search-path primitives (utils/plugin.c over utils/fileutils.c).         *)
(***************************************************************************)
InsertAt(p, i, d) == SubSeq(p, 1, i) \o <<d>> \o SubSeq(p, i + 1, Len(p))
RemoveAt(p, i) == SubSeq(p, 1, i) \o SubSeq(p, i + 2, Len(p))

\* Variant: a negative n counts from the last element, so that n = -1 is
\* the position before it.
ClipIndexFromLast(p, n) ==
  LET pos == IF n < 0 THEN Len(p) + n ELSE n
  IN  Max(0, Min(pos, Len(p)))

\* Position for index n: a negative n counts from the end (n = -1 is the
\* end), an out-of-range n is clipped to 0..Len(p).
ClipIndex(p, n) ==
  LET pos == IF n < 0 THEN Len(p) + n + 1 ELSE n
  IN  Max(0, Min(pos, Len(p)))

plugin_path_insert(p, d, n) ==
  [paths |-> InsertAt(p, ClipIndex(p, n), d), rc |-> ClipIndex(p, n)]

plugin_path_append(p, d) == [paths |-> Append(p, d), rc |-> Len(p)]

\* The first n bytes of the path text.
Truncate(d, n) ==
  CHOOSE t \in Dirs :
    PathChars(t) = SubSeq(PathChars(d), 1, Min(n, Len(PathChars(d))))

plugin_path_appendn(p, d, n) == plugin_path_append(p, Truncate(d, n))

plugin_path_delete(p, n) ==
  IF Len(p) = 0 \/ ClipIndex(p, n) = Len(p)
  THEN [paths |-> p, rc |-> -1]
  ELSE [paths |-> RemoveAt(p, ClipIndex(p, n)), rc |-> 0]

\* Variant: the last element equal to d is removed.
plugin_path_remove_last(p, d) ==
  IF \E i \in 1..Len(p) : p[i] = d
  THEN [paths |-> RemoveAt(p, (CHOOSE i \in 1..Len(p) :
                                 p[i] = d /\ \A j \in (i+1)..Len(p) : p[j] # d) - 1),
        rc |-> 0]
  ELSE [paths |-> p, rc |-> 1]

FirstIndex(p, d) == CHOOSE i \in 1..Len(p) : p[i] = d /\ \A j \in 1..(i-1) : p[j] # d

plugin_path_remove(p, d) ==
  IF \E i \in 1..Len(p) : p[i] = d
  THEN [paths |-> RemoveAt(p, FirstIndex(p, d) - 1), rc |-> 0]
  ELSE [paths |-> p, rc |-> 1]

\* plugin_path_get(): NULL when no search path is defined.
plugin_path_get(p) == IF p = <<>> THEN NULL ELSE p

(***************************************************************************)
(* Lazy initialisation.                                                    *)
(***************************************************************************)
BuiltinDir(e) == IF e.build_root THEN "/p" ELSE "/p/q"

\* Search path of a fresh registry: the environment variable first, then
\* the built-in directory of the active mode.
InitialPaths(e) == e.dirs \o <<BuiltinDir(e)>>

\* plugin_info_create() may fail on allocation.
CreateOutcomes == IF storage_plugin_info = NULL THEN BOOLEAN ELSE {TRUE}

\* Variant: the registry is created, seeded and its teardown hook
\* registered on every call whose allocation succeeds.
get_storage_plugin_info_every_call(created) ==
  IF created
  THEN [info |-> INFO, paths |-> InitialPaths(env), apis |-> <<>>,
        hooks |-> Min(atexit_hooks + 1, 3)]
  ELSE [info |-> storage_plugin_info, paths |-> paths, apis |-> apis,
        hooks |-> atexit_hooks]

\* Lines 38-57: the registry is created on the first call that finds it
\* absent; a successful creation seeds the search path and registers the
\* teardown hook.
get_storage_plugin_info(created) ==
  IF storage_plugin_info = NULL /\ created
  THEN [info |-> INFO, paths |-> InitialPaths(env), apis |-> <<>>,
        hooks |-> atexit_hooks + 1]
  ELSE [info |-> storage_plugin_info, paths |-> paths, apis |-> apis,
        hooks |-> atexit_hooks]

Init ==
  /\ env \in Environments
  /\ storage_plugin_info = NULL
  /\ paths = <<>>
  /\ apis = <<>>
  /\ storage_plugin_path_hash = ZeroHash
  /\ atexit_hooks = 0
  /\ crashed = FALSE
  /\ last = [op |-> "start", arg |-> NULL, ret |-> NULL, rescans |-> 0, hashed |-> "no"]
  /\ errmsg = NoMessage
  /\ iter = NoIter
  /\ threads = NoThreads
  /\ scanned = Untracked

\* The same program with the search path of each full rescan recorded.
InitHistory ==
  /\ env \in Environments
  /\ storage_plugin_info = NULL
  /\ paths = <<>>
  /\ apis = <<>>
  /\ storage_plugin_path_hash = ZeroHash
  /\ atexit_hooks = 0
  /\ crashed = FALSE
  /\ last = [op |-> "start", arg |-> NULL, ret |-> NULL, rescans |-> 0, hashed |-> "no"]
  /\ errmsg = NoMessage
  /\ iter = NoIter
  /\ threads = NoThreads
  /\ scanned = NoScan

\* The history variable after a full rescan of the search path p.
Rescanned(p) ==
  IF scanned.recorded THEN [recorded |-> TRUE, done |-> TRUE, paths |-> p] ELSE scanned

\* What a call leaves for its caller: the value returned and the message
\* handed to errx(), if any.
Report(op, arg, ret, rescans, hashed, msg) ==
  /\ last' = [op |-> op, arg |-> arg, ret |-> ret, rescans |-> rescans, hashed |-> hashed]
  /\ errmsg' = msg

Observe(op, arg, ret, rescans, hashed) ==
  Report(op, arg, ret, rescans, hashed, NoMessage)

\* What get_storage_plugin_info() leaves behind, whatever the caller does next.
SetInfo(i) ==
  /\ storage_plugin_info' = i.info
  /\ atexit_hooks' = i.hooks
  /\ env' = env

(***************************************************************************)
(* dlite_storage_plugin_get()                                              *)
(***************************************************************************)

\* Variant: the return value of pathshash() is not checked.
rescan_due_unchecked(rc, cached, hash) == cached # hash

\* Variant: the comparison with the cached digest is left out.
rescan_due_always(rc, cached, hash) == rc = 0

\* Line 92-94: a rescan is due when the digest could be computed and
\* differs from the cached one.
rescan_due(rc, cached, hash) == rc = 0 /\ cached # hash

\* Variant: the digest is computed and compared before the registered apis
\* are looked at.
get_lookup_hash_first(i, cached, name, rc) ==
  LET hash   == pathshash(i.paths)
      rescan == rescan_due(rc, cached, hash)
      loaded == plugin_load_all(i.apis, i.paths)
  IN  IF rescan
      THEN [api |-> plugin_get_api(loaded, name), apis |-> loaded, hash |-> hash,
            rescans |-> 1, hashed |-> IF rc = 0 THEN "ok" ELSE "failed"]
      ELSE [api |-> plugin_get_api(i.apis, name), apis |-> i.apis, hash |-> cached,
            rescans |-> 0, hashed |-> IF rc = 0 THEN "ok" ELSE "failed"]

\* Variant: the digest is stored as soon as it is computed, rescan or not,
\* and on the fast path too.
get_lookup_store_first(i, cached, name, rc) ==
  LET hit    == plugin_get_api(i.apis, name)
      hash   == pathshash(i.paths)
      rescan == rescan_due(rc, cached, hash)
      loaded == plugin_load_all(i.apis, i.paths)
  IN  IF hit # NULL
      THEN [api |-> hit, apis |-> i.apis, hash |-> hash,
            rescans |-> 0, hashed |-> "no"]
      ELSE IF rescan
      THEN [api |-> plugin_get_api(loaded, name), apis |-> loaded, hash |-> hash,
            rescans |-> 1, hashed |-> IF rc = 0 THEN "ok" ELSE "failed"]
      ELSE [api |-> NULL, apis |-> i.apis, hash |-> cached,
            rescans |-> 0, hashed |-> IF rc = 0 THEN "ok" ELSE "failed"]

\* Lines 87-101 on the registry `i`: the registry after the call, the api
\* found (NULL when the error block is reached) and what was done.
get_lookup(i, cached, name, rc) ==
  LET hit    == plugin_get_api(i.apis, name)
      hash   == pathshash(i.paths)
      rescan == rescan_due(rc, cached, hash)
      loaded == plugin_load_all(i.apis, i.paths)
  IN  IF hit # NULL
      THEN [api |-> hit, apis |-> i.apis, hash |-> cached,
            rescans |-> 0, hashed |-> "no"]
      ELSE IF rescan
      THEN [api |-> plugin_get_api(loaded, name), apis |-> loaded, hash |-> hash,
            rescans |-> 1, hashed |-> IF rc = 0 THEN "ok" ELSE "failed"]
      ELSE [api |-> NULL, apis |-> i.apis, hash |-> cached,
            rescans |-> 0, hashed |-> IF rc = 0 THEN "ok" ELSE "failed"]

\* Variant: the hint is appended whatever the number of directories listed.
error_message_hint_always(name, p, e) ==
  [name |-> name, dirs |-> p,
   hint |-> IF e.build_root
            THEN "DLITE_STORAGE_PLUGIN_DIRS"
            ELSE "DLITE_ROOT or DLITE_STORAGE_PLUGIN_DIRS"]

\* Lines 104-120: the message names the driver, lists the n directories of
\* the search path in order, and ends with the hint when n <= 1.
error_message(name, p, e) ==
  [name |-> name, dirs |-> p,
   hint |-> IF Len(p) <= 1
            THEN IF e.build_root
                 THEN "DLITE_STORAGE_PLUGIN_DIRS"
                 ELSE "DLITE_ROOT or DLITE_STORAGE_PLUGIN_DIRS"
            ELSE "none"]

\* Lines 106-116: the error block walks the array dlite_storage_plugin_paths()
\* returns.  With no search path defined that array is NULL and `*(paths++)`
\* is an invalid read: the process is killed, or the read yields a null
\* entry and the walk ends at once.
FaultOutcomes(i) ==
  IF plugin_path_get(i.paths) = NULL THEN {"SIGSEGV", "reads null"} ELSE {"none"}

\* pathshash() is called on a miss only; it returns 0 or an error code.
HashOutcomes(i, name) ==
  IF i.info = NULL \/ plugin_get_api(i.apis, name) # NULL THEN {0} ELSE {0, 1}

dlite_storage_plugin_get(name) ==
  /\ ~crashed
  /\ UNCHANGED <<iter, threads>>
  /\ \E created \in CreateOutcomes :
     \E rc \in HashOutcomes(get_storage_plugin_info(created), name) :
     \E fault \in FaultOutcomes(get_storage_plugin_info(created)) :
       LET i == get_storage_plugin_info(created)
           r == get_lookup(i, storage_plugin_path_hash, name, rc)
       IN  /\ SetInfo(i)
           /\ paths' = i.paths
           /\ IF i.info = NULL
              THEN /\ UNCHANGED <<apis, storage_plugin_path_hash, crashed, scanned>>
                   /\ Observe("get", name, NULL, 0, "no")
              ELSE /\ apis' = r.apis
                   /\ storage_plugin_path_hash' = r.hash
                   /\ scanned' = IF r.rescans > 0 THEN Rescanned(i.paths) ELSE scanned
                   /\ IF r.api # NULL
                      THEN /\ crashed' = crashed
                           /\ Observe("get", name, r.api, r.rescans, r.hashed)
                      ELSE IF plugin_path_get(i.paths) = NULL /\ fault = "SIGSEGV"
                      THEN /\ crashed' = TRUE
                           /\ Observe("get", name, "SIGSEGV", r.rescans, r.hashed)
                      ELSE /\ crashed' = crashed
                           /\ Report("get", name, NULL, r.rescans, r.hashed,
                                     error_message(name, i.paths, env))

(***************************************************************************)
(* dlite_storage_plugin_load_all(), _unload_all(), _unload()               *)
(***************************************************************************)
dlite_storage_plugin_load_all ==
  /\ ~crashed
  /\ UNCHANGED <<iter, threads>>
  /\ \E created \in CreateOutcomes :
       LET i == get_storage_plugin_info(created)
       IN  /\ SetInfo(i)
           /\ paths' = i.paths
           /\ UNCHANGED <<storage_plugin_path_hash, crashed>>
           /\ IF i.info = NULL
              THEN /\ UNCHANGED <<apis, scanned>>
                   /\ Observe("load_all", NULL, 1, 0, "no")
              ELSE /\ apis' = plugin_load_all(i.apis, i.paths)
                   /\ scanned' = Rescanned(i.paths)
                   /\ Observe("load_all", NULL, 0, 1, "no")

\* Variant: the loop stops after the first name.
unload_all_first_only(m, names_ok) ==
  IF names_ok /\ m # <<>> THEN plugin_unload_apis(m, plugin_names(m)[1]) ELSE m

\* Lines 146-151: nothing is unloaded when plugin_names() returns NULL.
unload_all_apis(m, names_ok) ==
  IF names_ok THEN unload_each(m, plugin_names(m)) ELSE m

dlite_storage_plugin_unload_all ==
  /\ ~crashed
  /\ UNCHANGED <<iter, threads>>
  /\ \E created \in CreateOutcomes, names_ok \in BOOLEAN :
       LET i == get_storage_plugin_info(created)
       IN  /\ SetInfo(i)
           /\ paths' = i.paths
           /\ UNCHANGED <<storage_plugin_path_hash, crashed, scanned>>
           /\ IF i.info = NULL
              THEN /\ UNCHANGED apis
                   /\ Observe("unload_all", NULL, "no registry", 0, "no")
              ELSE /\ apis' = unload_all_apis(i.apis, names_ok)
                   /\ Observe("unload_all", NULL,
                              IF names_ok THEN "done" ELSE "no names", 0, "no")

\* Variant: the result of plugin_unload() is dropped and 0 returned.
dlite_storage_plugin_unload_rc0(name) ==
  /\ ~crashed
  /\ UNCHANGED <<iter, threads>>
  /\ \E created \in CreateOutcomes :
       LET i == get_storage_plugin_info(created)
       IN  /\ SetInfo(i)
           /\ paths' = i.paths
           /\ UNCHANGED <<storage_plugin_path_hash, crashed, scanned>>
           /\ IF i.info = NULL
              THEN /\ UNCHANGED apis
                   /\ Observe("unload", name, 1, 0, "no")
              ELSE /\ apis' = plugin_unload_apis(i.apis, name)
                   /\ Observe("unload", name, 0, 0, "no")

dlite_storage_plugin_unload(name) ==
  /\ ~crashed
  /\ UNCHANGED <<iter, threads>>
  /\ \E created \in CreateOutcomes :
       LET i == get_storage_plugin_info(created)
       IN  /\ SetInfo(i)
           /\ paths' = i.paths
           /\ UNCHANGED <<storage_plugin_path_hash, crashed, scanned>>
           /\ IF i.info = NULL
              THEN /\ UNCHANGED apis
                   /\ Observe("unload", name, 1, 0, "no")
              ELSE /\ apis' = plugin_unload_apis(i.apis, name)
                   /\ Observe("unload", name, plugin_unload_rc(i.apis, name), 0, "no")

(***************************************************************************)
(* Search-path mutation                                                    *)
(***************************************************************************)

\* Variant: a mutator that reloads the plugins for the new search path.
PathCallReloading(op, i, r) ==
  /\ SetInfo(i)
  /\ UNCHANGED <<storage_plugin_path_hash, crashed, scanned>>
  /\ IF i.info = NULL
     THEN /\ paths' = i.paths
          /\ apis' = apis
          /\ Observe(op, NULL, 1, 0, "no")
     ELSE /\ paths' = r.paths
          /\ apis' = plugin_load_all(i.apis, r.paths)
          /\ Observe(op, NULL, r.rc, 1, "no")

\* Common shape of the five mutators: `r` is what the plugin_path_*()
\* primitive returns for the registry `i`.
PathCall(op, i, r) ==
  /\ SetInfo(i)
  /\ UNCHANGED <<apis, storage_plugin_path_hash, crashed, scanned>>
  /\ IF i.info = NULL
     THEN /\ paths' = i.paths
          /\ Observe(op, NULL, 1, 0, "no")
     ELSE /\ paths' = r.paths
          /\ Observe(op, NULL, r.rc, 0, "no")

dlite_storage_plugin_path_insert(n, path) ==
  /\ ~crashed
  /\ UNCHANGED <<iter, threads>>
  /\ \E created \in CreateOutcomes :
       LET i == get_storage_plugin_info(created)
       IN  /\ Len(i.paths) < MaxPaths
           /\ PathCall("path_insert", i, plugin_path_insert(i.paths, path, n))

dlite_storage_plugin_path_append(path) ==
  /\ ~crashed
  /\ UNCHANGED <<iter, threads>>
  /\ \E created \in CreateOutcomes :
       LET i == get_storage_plugin_info(created)
       IN  /\ Len(i.paths) < MaxPaths
           /\ PathCall("path_append", i, plugin_path_append(i.paths, path))

dlite_storage_plugin_path_appendn(path, n) ==
  /\ ~crashed
  /\ UNCHANGED <<iter, threads>>
  /\ \E created \in CreateOutcomes :
       LET i == get_storage_plugin_info(created)
       IN  /\ Len(i.paths) < MaxPaths
           /\ PathCall("path_appendn", i, plugin_path_appendn(i.paths, path, n))

dlite_storage_plugin_path_delete(n) ==
  /\ ~crashed
  /\ UNCHANGED <<iter, threads>>
  /\ \E created \in CreateOutcomes :
       LET i == get_storage_plugin_info(created)
       IN  PathCall("path_delete", i, plugin_path_delete(i.paths, n))

dlite_storage_plugin_path_remove(path) ==
  /\ ~crashed
  /\ UNCHANGED <<iter, threads>>
  /\ \E created \in CreateOutcomes :
       LET i == get_storage_plugin_info(created)
       IN  PathCall("path_remove", i, plugin_path_remove(i.paths, path))

Next ==
  \/ \E name \in Names : dlite_storage_plugin_get(name)
  \/ dlite_storage_plugin_load_all
  \/ dlite_storage_plugin_unload_all
  \/ \E name \in Names : dlite_storage_plugin_unload(name)
  \/ \E n \in InsertIndices, path \in Dirs : dlite_storage_plugin_path_insert(n, path)
  \/ \E path \in Dirs : dlite_storage_plugin_path_append(path)
  \/ \E path \in Dirs, n \in TruncateLengths : dlite_storage_plugin_path_appendn(path, n)
  \/ \E n \in DeleteIndices : dlite_storage_plugin_path_delete(n)
  \/ \E path \in Dirs : dlite_storage_plugin_path_remove(path)

Spec == Init /\ [][Next]_vars

SpecHistory == InitHistory /\ [][Next]_vars

(***************************************************************************)
(* The registry as a caller observes it.                                   *)
(***************************************************************************)

\* Every public function goes through get_storage_plugin_info(), so the
\* search path a caller can observe before the first call is the one a
\* fresh registry is seeded with.
SearchPathSet == IF storage_plugin_info = NULL THEN InitialPaths(env) ELSE paths

PathHashCache == storage_plugin_path_hash

Registered(name) == plugin_has_api(apis, name)

\* Some loadable library on search path p reports driver `name`.
Provides(p, name) ==
  \E k \in 1..Len(p) : \E f \in 1..Len(DirFiles(p[k])) :
    DirFiles(p[k])[f].loadable /\ DirFiles(p[k])[f].name = name

\* The cached digest is the digest of the current search path.
Synced == storage_plugin_info # NULL /\ PathHashCache = pathshash(paths)

\* The step is a call of the named function (the observation it leaves is
\* looked at first, which spares evaluating the action on other steps).
GetCall(name) ==
  last'.op = "get" /\ last'.arg = name /\ dlite_storage_plugin_get(name)
UnloadCall(name) ==
  last'.op = "unload" /\ last'.arg = name /\ dlite_storage_plugin_unload(name)
UnloadAllCall == last'.op = "unload_all" /\ dlite_storage_plugin_unload_all
LoadAllCall == last'.op = "load_all" /\ dlite_storage_plugin_load_all
AppendCall ==
  last'.op = "path_append" /\ \E path \in Dirs : dlite_storage_plugin_path_append(path)

GetStep == \E name \in Names : GetCall(name)
UnloadStep == \E name \in Names : UnloadCall(name)
PathMutation ==
  \/ \E n \in InsertIndices, path \in Dirs : dlite_storage_plugin_path_insert(n, path)
  \/ \E path \in Dirs : dlite_storage_plugin_path_append(path)
  \/ \E path \in Dirs, n \in TruncateLengths : dlite_storage_plugin_path_appendn(path, n)
  \/ \E n \in DeleteIndices : dlite_storage_plugin_path_delete(n)
  \/ \E path \in Dirs : dlite_storage_plugin_path_remove(path)
PathStep ==
  /\ last'.op \in {"path_insert", "path_append", "path_appendn",
                   "path_delete", "path_remove"}
  /\ PathMutation

\* The call returned without a descriptor: the DriverNotFound outcome.
DriverNotFound == last.op = "get" /\ last.ret = NULL /\ ~crashed

(***************************************************************************)
(* C1  Hash-gated miss: when `name` is not registered and the digest of    *)
(* the current search path equals the cached digest, get(name) performs no *)
(* rescan, leaves the mapping, the search path and the cached digest       *)
(* unchanged and fails with DriverNotFound.                                *)
(***************************************************************************)
C1_HashGatedMiss ==
  [][\A name \in Names :
       (/\ ~Registered(name)
        /\ PathHashCache = pathshash(SearchPathSet)
        /\ GetCall(name))
       => (/\ last'.rescans = 0
           /\ apis' = apis
           /\ SearchPathSet' = SearchPathSet
           /\ PathHashCache' = PathHashCache
           /\ DriverNotFound')]_vars

\* C1 with at least one directory on the search path.
C1_HashGatedMissNonEmpty ==
  [][\A name \in Names :
       (/\ ~Registered(name)
        /\ SearchPathSet # <<>>
        /\ PathHashCache = pathshash(SearchPathSet)
        /\ GetCall(name))
       => (/\ last'.rescans = 0
           /\ apis' = apis
           /\ SearchPathSet' = SearchPathSet
           /\ PathHashCache' = PathHashCache
           /\ DriverNotFound')]_vars

(***************************************************************************)
(* C2  After a get() has rescanned and recorded the digest, appending a    *)
(* path makes the next get() of an unregistered name rescan exactly once,  *)
(* whatever unload, unload_all, load_all or fast-path get() calls come in  *)
(* between; a further get() with the search path unchanged rescans not at  *)
(* all.                                                                    *)
(***************************************************************************)

\* A path was appended after the digest was recorded and no path operation
\* followed: the cached digest is that of the search path without its last
\* element.
Armed ==
  /\ storage_plugin_info # NULL
  /\ paths # <<>>
  /\ PathHashCache = pathshash(SubSeq(paths, 1, Len(paths) - 1))

\* The parts of C2 that do not depend on how the miss ends.
C2_Frame ==
  /\ (Synced /\ AppendCall)
       => Armed' /\ ~Synced'
  /\ (/\ Armed
      /\ \/ UnloadStep
         \/ UnloadAllCall
         \/ LoadAllCall
         \/ \E name \in Names : Registered(name) /\ GetCall(name))
       => Armed' /\ paths' = paths
  /\ \A name \in Names :
       (Synced /\ ~Registered(name) /\ GetCall(name))
         => last'.rescans = 0

C3_HashReflectsLastRescan ==
  scanned.done => PathHashCache = pathshash(scanned.paths)

(***************************************************************************)
(* C4  Fast path: when `name` is registered, get(name) returns the         *)
(* registered descriptor, computes no digest, does not rescan and leaves   *)
(* the mapping, the search path and the cached digest unchanged, also when *)
(* the search path changed since the last rescan; a second get(name)       *)
(* right after a successful one returns the same descriptor.               *)
(***************************************************************************)
C4_FastPath ==
  [][\A name \in Names :
       /\ (Registered(name) /\ GetCall(name))
            => /\ last'.ret = plugin_get_api(apis, name)
               /\ last'.rescans = 0
               /\ last'.hashed = "no"
               /\ apis' = apis
               /\ SearchPathSet' = SearchPathSet
               /\ PathHashCache' = PathHashCache
               /\ ~crashed'
       /\ (/\ last.op = "get" /\ last.arg = name
           /\ last.ret \notin {NULL, "SIGSEGV"}
           /\ GetCall(name))
            => last'.ret = last.ret]_vars

\* A fast-path hit while the cached digest is out of date.
C4_Witness ==
  /\ last.op = "get" /\ last.hashed = "no" /\ last.rescans = 0
  /\ last.ret = "/p/q/h5.so"
  /\ storage_plugin_info # NULL /\ ~Synced

(***************************************************************************)
(* C5  Scenario C: once X was loaded by a rescan that get() triggered,     *)
(* unload(X) and then get(X) with the search path unchanged rescans not    *)
(* and fails, and get(X) keeps failing until a path mutation changes the   *)
(* digest or load_all() is called, after which get(X) succeeds again.      *)
(***************************************************************************)

\* X is not registered although the recorded digest is that of the current
\* search path and a library on that path reports X: the state unload(X)
\* leaves behind after a rescan by get().
Gated(X) == Synced /\ ~Registered(X) /\ Provides(paths, X)

\* The cached digest was recorded by a rescan of a search path providing X.
LoadedByGet(X) ==
  \E n \in 0..MaxPaths : \E p \in [1..n -> Dirs] :
    PathHashCache = pathshash(p) /\ Provides(p, X)

C5_FailsWhileGated(X) ==
  /\ (/\ last'.op = "unload"
      /\ Synced /\ Registered(X) /\ Provides(paths, X)
      /\ UnloadCall(X))
       => Gated(X)'
  /\ (last'.op = "get" /\ Gated(X) /\ GetCall(X))
       => last'.rescans = 0 /\ DriverNotFound' /\ Gated(X)'
  /\ (/\ last'.op \in {"get", "unload", "unload_all"}
      /\ Gated(X)
      /\ (GetStep \/ UnloadStep \/ UnloadAllCall))
       => Gated(X)'
  /\ (/\ last'.op = "load_all"
      /\ Provides(SearchPathSet, X)
      /\ LoadAllCall
      /\ storage_plugin_info' # NULL)
       => Registered(X)'

C6_LookupComplete ==
  [][\A name \in Names :
       (/\ ~Registered(name)
        /\ Provides(SearchPathSet, name)
        /\ storage_plugin_info' # NULL
        /\ last'.hashed # "failed"
        /\ GetCall(name))
       => /\ last'.ret \notin {NULL, "SIGSEGV"}
          /\ Registered(name)']_vars

C8_PathMutationsDeferred ==
  [][PathStep
       => /\ apis' = apis
          /\ PathHashCache' = PathHashCache
          /\ last'.rescans = 0
          /\ last'.hashed = "no"
          /\ scanned' = scanned
          /\ crashed' = crashed]_vars

\* A path mutation changed the search path under a recorded digest while a
\* library of the new path stays unregistered.
C8_Witness ==
  /\ last.op \in {"path_insert", "path_append", "path_appendn"}
  /\ storage_plugin_info # NULL /\ PathHashCache # ZeroHash /\ ~Synced
  /\ Provides(paths, "json") /\ ~Registered("json")

(***************************************************************************)
(* C9  unload(name): a registered name gives 0, that entry alone is        *)
(* removed and the other entries, the search path and the cached digest    *)
(* stay; an unregistered name gives non-zero and nothing changes.          *)
(***************************************************************************)
C9_Unload ==
  [][\A name \in Names :
       UnloadCall(name)
       => /\ SearchPathSet' = SearchPathSet
          /\ PathHashCache' = PathHashCache
          /\ last'.rescans = 0
          /\ IF Registered(name)
             THEN /\ last'.ret = 0
                  /\ ~Registered(name)'
                  /\ Len(apis') = Len(apis) - 1
                  /\ \A other \in Names \ {name} :
                       plugin_get_api(apis', other) = plugin_get_api(apis, other)
             ELSE /\ last'.ret # 0
                  /\ apis' = apis]_vars

\* unload() removed one of two registered entries.
C9_Witness ==
  /\ last.op = "unload" /\ last.ret = 0 /\ last.arg = "hdf5"
  /\ Len(apis) = 1 /\ Registered("json")

(***************************************************************************)
(* C10  unload_all(): with the registry available, the mapping is empty    *)
(* after the call, every name registered at the call having been unloaded  *)
(* once, and the search path is unchanged.                                 *)
(***************************************************************************)
NoDuplicates(t) == \A a, b \in 1..Len(t) : t[a] = t[b] => a = b

MaxLen == 3

\* Indices beyond the end and before the start of a path of length L, as
\* far out as L + 100 and -(L + 100).
FarIndices(p) == {Len(p) + 100, -(Len(p) + 100)}

SearchPathInsert(n, path) ==
  /\ ~crashed
  /\ UNCHANGED <<iter, threads>>
  /\ Len(SearchPathSet) < MaxLen
  /\ \E created \in CreateOutcomes :
       LET i == get_storage_plugin_info(created)
       IN  PathCall("path_insert", i, plugin_path_insert(i.paths, path, n))

SearchPathAppend(path) ==
  /\ ~crashed
  /\ UNCHANGED <<iter, threads>>
  /\ Len(SearchPathSet) < MaxLen
  /\ \E created \in CreateOutcomes :
       LET i == get_storage_plugin_info(created)
       IN  PathCall("path_append", i, plugin_path_append(i.paths, path))

SearchPathAppendn(path, n) ==
  /\ ~crashed
  /\ UNCHANGED <<iter, threads>>
  /\ Len(SearchPathSet) < MaxLen
  /\ \E created \in CreateOutcomes :
       LET i == get_storage_plugin_info(created)
       IN  PathCall("path_appendn", i, plugin_path_appendn(i.paths, path, n))

NextSearchPath ==
  \/ \E path \in Dirs, n \in InsertIndices \cup FarIndices(SearchPathSet) :
       SearchPathInsert(n, path)
  \/ \E path \in Dirs : SearchPathAppend(path)
  \/ \E path \in Dirs, n \in TruncateLengths : SearchPathAppendn(path, n)
  \/ \E n \in DeleteIndices : dlite_storage_plugin_path_delete(n)
  \/ \E path \in Dirs : dlite_storage_plugin_path_remove(path)

SpecSearchPath == Init /\ [][NextSearchPath]_vars

\* The search path without the element at 0-based position k.
Without(p, k) == [j \in 1..(Len(p) - 1) |-> IF j <= k THEN p[j] ELSE p[j + 1]]

(***************************************************************************)
(* C11  Clipped and negative insert indices: on a search path of length L, *)
(* insert(p, -1) puts p at index L, insert(p, L+100) is clipped to index L *)
(* and insert(p, -(L+100)) to index 0; each call returns the index p was   *)
(* put at, the path grows by one and the elements that were there keep     *)
(* their order.  Stated for the calls that obtained the registry.          *)
(***************************************************************************)

\* The step put `path` at 0-based index k and returned k.
InsertedAt(k, path) ==
  /\ last'.ret = k
  /\ Len(paths') = Len(SearchPathSet) + 1
  /\ paths'[k + 1] = path
  /\ Without(paths', k) = SearchPathSet

RECURSIVE SeqRemoveFirst(_, _)
SeqRemoveFirst(q, x) ==
  IF q = <<>> THEN <<>>
  ELSE IF Head(q) = x THEN Tail(q)
  ELSE <<Head(q)>> \o SeqRemoveFirst(Tail(q), x)

Occurs(q, x) == \E k \in 1..Len(q) : q[k] = x

C12_AppendRemoveRoundTrip ==
  [][\A path \in Dirs :
       /\ (/\ last'.op = "path_append" /\ storage_plugin_info' # NULL
           /\ SearchPathAppend(path))
            => /\ paths' = SearchPathSet \o <<path>>
               /\ last'.ret = Len(paths') - 1
       /\ (/\ last'.op = "path_remove" /\ storage_plugin_info' # NULL
           /\ dlite_storage_plugin_path_remove(path))
            => IF Occurs(SearchPathSet, path)
               THEN last'.ret = 0 /\ paths' = SeqRemoveFirst(SearchPathSet, path)
               ELSE last'.ret # 0 /\ paths' = SearchPathSet]_vars

\* remove("/p") took the first of two "/p" out of <<"/p", "/p/q", "/p">>.
C12_Witness ==
  /\ last.op = "path_remove" /\ last.ret = 0
  /\ paths = <<"/p/q", "/p">>
  /\ env.dirs = <<>>

(***************************************************************************)
(* C13  Error value of the inserting functions: insert, append and appendn *)
(* return the index of the new element when one was inserted and -1 on     *)
(* every error, the registry not being obtainable included; they never     *)
(* return a non-negative value when nothing was inserted.                  *)
(***************************************************************************)
InsertingStep ==
  /\ last'.op \in {"path_insert", "path_append", "path_appendn"}
  /\ \/ \E path \in Dirs, n \in InsertIndices \cup FarIndices(SearchPathSet) :
          SearchPathInsert(n, path)
     \/ \E path \in Dirs : SearchPathAppend(path)
     \/ \E path \in Dirs, n \in TruncateLengths : SearchPathAppendn(path, n)

C13_InsertErrorValue ==
  [][InsertingStep
       => IF storage_plugin_info' # NULL /\ Len(paths') = Len(SearchPathSet) + 1
          THEN last'.ret \in 0..Len(SearchPathSet)
          ELSE last'.ret = -1]_vars

(***************************************************************************)
(* C14  Lazy initialisation is idempotent: the registry is constructed at  *)
(* most once; every call after the successful construction uses that       *)
(* instance, its search path and mapping never being seeded again; the     *)
(* teardown hook is registered exactly once, at the successful             *)
(* construction; a failed construction registers no hook and leaves the    *)
(* registry absent, and a later call tries again.                          *)
(***************************************************************************)

\* Some call can construct the registry in the current state.
CanConstruct == ENABLED (Next /\ storage_plugin_info' # NULL)

C14_LazyInitOnce ==
  /\ storage_plugin_info = NULL /\ atexit_hooks = 0
  /\ [][/\ storage_plugin_info # NULL
             => /\ storage_plugin_info' = storage_plugin_info
                /\ atexit_hooks' = atexit_hooks
                /\ atexit_hooks = 1
                /\ last'.op \in {"get", "load_all", "unload", "unload_all"}
                     => paths' = paths
                /\ last'.op \notin {"unload", "unload_all"}
                     => \A name \in Names : Registered(name) => Registered(name)'
        /\ (storage_plugin_info = NULL /\ storage_plugin_info' # NULL)
             => /\ atexit_hooks = 0 /\ atexit_hooks' = 1
                /\ storage_plugin_info' = INFO
        /\ (storage_plugin_info = NULL /\ storage_plugin_info' = NULL)
             => /\ atexit_hooks' = 0
                /\ paths' = paths /\ apis' = apis
                /\ CanConstruct']_vars

\* A call on the constructed registry: the search path is no longer the one
\* the registry was seeded with, a plugin is registered and the hook count
\* is one.
C14_Witness ==
  /\ storage_plugin_info = INFO /\ atexit_hooks = 1
  /\ last.op = "get" /\ last.ret = "/p/hdf5.so"
  /\ paths = <<"/p", "/p">> /\ env.dirs = <<>>

(***************************************************************************)
(* C15  Every failing get(name), whatever the number of directories on the *)
(* search path, produces a message with the requested name, every          *)
(* directory of the search path in order and the hint naming the           *)
(* environment variable(s): DLITE_STORAGE_PLUGIN_DIRS alone in build-tree  *)
(* mode, DLITE_ROOT or DLITE_STORAGE_PLUGIN_DIRS in installed mode.        *)
(* Stated for the calls that obtained the registry.                        *)
(***************************************************************************)
HintFor(e) ==
  IF e.build_root
  THEN "DLITE_STORAGE_PLUGIN_DIRS"
  ELSE "DLITE_ROOT or DLITE_STORAGE_PLUGIN_DIRS"

\* The most recent call was a get() that found no plugin.
FailedGet ==
  last.op = "get" /\ last.ret \in {NULL, "SIGSEGV"} /\ storage_plugin_info # NULL

C16_ScenarioA ==
  [][\A name \in Names :
       (/\ last'.op = "get"
        /\ SearchPathSet = <<>> /\ apis = <<>>
        /\ storage_plugin_info' # NULL
        /\ GetCall(name))
       => /\ ~crashed'
          /\ last'.ret = NULL
          /\ errmsg' = [name |-> name, dirs |-> <<>>, hint |-> HintFor(env)]
          /\ apis' = <<>>]_vars

(***************************************************************************)
(* C17  Name uniqueness, last registered wins: the mapping never holds two *)
(* entries of one driver name, and after a rescan, by load_all() or by     *)
(* get(), a name that library files on the search path report is mapped to *)
(* the file loaded last in scan order, the directories being scanned in    *)
(* search-path order.                                                      *)
(***************************************************************************)

\* The loadable library files on search path p, in scan order.
RECURSIVE ScanOrder(_)
ScanOrder(p) ==
  IF p = <<>> THEN <<>>
  ELSE SelectSeq(DirFiles(Head(p)), LAMBDA f : f.loadable) \o ScanOrder(Tail(p))

\* The file of the last library in scan order that reports X.
LastLoaded(p, X) ==
  LET fs == ScanOrder(p)
      k  == CHOOSE j \in 1..Len(fs) :
              fs[j].name = X /\ \A h \in (j + 1)..Len(fs) : fs[h].name # X
  IN  fs[k].file

\* Two distinct library files on search path p report X.
ReportedTwice(p, X) ==
  \E a, b \in 1..Len(ScanOrder(p)) :
    /\ ScanOrder(p)[a].name = X /\ ScanOrder(p)[b].name = X
    /\ ScanOrder(p)[a].file # ScanOrder(p)[b].file

C17_LastRegisteredWins ==
  /\ NoDuplicates(plugin_names(apis))
  /\ [][/\ NoDuplicates(plugin_names(apis'))
        /\ \A X \in Names :
             (/\ last'.op \in {"get", "load_all"} /\ last'.rescans = 1
              /\ ReportedTwice(paths', X))
               => plugin_get_api(apis', X) = LastLoaded(paths', X)]_vars

\* load_all() scanned "/p/q" and then "/p": "hdf5" is mapped to the library
\* of "/p" and not to the one of "/p/q" loaded before it.
C17_Witness ==
  /\ last.op = "load_all" /\ last.rescans = 1
  /\ paths = <<"/p/q", "/p">>
  /\ plugin_get_api(apis, "hdf5") = "/p/hdf5.so"
  /\ Len(apis) = 2

(***************************************************************************)
(* Iteration over the registered plugins (lines 158-186).  A caller holds  *)
(* up to MaxIters iterators; the registry is called between traversals,    *)
(* while no iterator is in use.                                            *)
(***************************************************************************)
MaxIters == 2

AllocationFailure == [name |-> NULL, dirs |-> <<>>, hint |-> "allocation failure"]

\* A freed iterator: nothing of it may be used again.
Freed == [live |-> FALSE, pos |-> 0, returned |-> <<>>, ended |-> FALSE]

\* plugin_api_iter_init(): the iterator stands before the first entry.
\* `returned` and `ended` are history: what next() has handed out so far and
\* whether it has reported the end.
plugin_api_iter_init ==
  [live |-> TRUE, pos |-> 0, returned |-> <<>>, ended |-> FALSE]

\* Variant: an iterator that has reported the end starts over.
plugin_api_iter_next_restarting(it, m) ==
  IF it.pos < Len(m)
  THEN [api |-> m[it.pos + 1].api, pos |-> it.pos + 1]
  ELSE [api |-> NULL, pos |-> 0]

\* plugin_api_iter_next(): the entry after the position, in registration
\* order, or NULL when there is none; the position never goes back.
plugin_api_iter_next(it, m) ==
  IF it.pos < Len(m)
  THEN [api |-> m[it.pos + 1].api, pos |-> it.pos + 1]
  ELSE [api |-> NULL, pos |-> it.pos]

LiveIters == {h \in 1..Len(iter) : iter[h].live}

dlite_storage_plugin_iter_create ==
  /\ ~crashed
  /\ Len(iter) < MaxIters
  /\ UNCHANGED <<storage_plugin_path_hash, crashed, scanned, threads>>
  /\ \E created \in CreateOutcomes, allocated \in BOOLEAN :
       LET i == get_storage_plugin_info(created)
       IN  /\ SetInfo(i)
           /\ paths' = i.paths
           /\ apis' = i.apis
           /\ IF i.info = NULL
              THEN /\ iter' = iter
                   /\ Observe("iter_create", NULL, NULL, 0, "no")
              ELSE IF ~allocated
              THEN /\ iter' = iter
                   /\ Report("iter_create", NULL, NULL, 0, "no", AllocationFailure)
              ELSE /\ iter' = Append(iter, plugin_api_iter_init)
                   /\ Observe("iter_create", NULL, Len(iter) + 1, 0, "no")

dlite_storage_plugin_iter_next(h) ==
  /\ ~crashed
  /\ h \in LiveIters
  /\ UNCHANGED <<env, storage_plugin_info, paths, apis, storage_plugin_path_hash,
                 atexit_hooks, crashed, scanned, threads>>
  /\ LET r == plugin_api_iter_next(iter[h], apis)
     IN  /\ iter' = [iter EXCEPT ![h] =
                       [live |-> TRUE, pos |-> r.pos,
                        returned |-> IF r.api = NULL THEN @.returned
                                     ELSE Append(@.returned, r.api),
                        ended |-> @.ended \/ r.api = NULL]]
         /\ Observe("iter_next", h, r.api, 0, "no")

dlite_storage_plugin_iter_free(h) ==
  /\ ~crashed
  /\ h \in LiveIters
  /\ UNCHANGED <<env, storage_plugin_info, paths, apis, storage_plugin_path_hash,
                 atexit_hooks, crashed, scanned, threads>>
  /\ iter' = [iter EXCEPT ![h] = Freed]
  /\ Observe("iter_free", h, NULL, 0, "no")

\* A call that fills, reads or empties the mapping, made while no iterator
\* is in use.
BetweenTraversals ==
  /\ LiveIters = {}
  /\ \/ \E name \in Names : dlite_storage_plugin_get(name)
     \/ dlite_storage_plugin_load_all
     \/ \E name \in Names : dlite_storage_plugin_unload(name)

NextIter ==
  \/ BetweenTraversals
  \/ dlite_storage_plugin_iter_create
  \/ \E h \in 1..MaxIters : dlite_storage_plugin_iter_next(h)
  \/ \E h \in 1..MaxIters : dlite_storage_plugin_iter_free(h)

SpecIter == Init /\ [][NextIter]_vars

(***************************************************************************)
(* C18  Iteration protocol: with no registry mutation between the iterator *)
(* being created and used, the iter_next() calls return every registered   *)
(* entry once, in registration order, and NULL from then on; the iterator  *)
(* never starts over; iter_next() and iter_free() leave the mapping as it  *)
(* is, and after iter_free() every entry can still be got.                 *)
(***************************************************************************)

\* The descriptors of the first k registered entries, in registration order.
FirstEntries(m, k) == [j \in 1..k |-> m[j].api]

C18_IterationProtocol ==
  [][/\ \A h \in 1..Len(iter') :
          iter'[h].live
            => /\ Len(iter'[h].returned) <= Len(apis')
               /\ iter'[h].returned = FirstEntries(apis', Len(iter'[h].returned))
               /\ iter'[h].ended => Len(iter'[h].returned) = Len(apis')
     /\ \A h \in 1..Len(iter) :
          (last'.op = "iter_next" /\ last'.arg = h)
            => /\ apis' = apis
               /\ IF Len(iter[h].returned) < Len(apis)
                  THEN last'.ret = apis[Len(iter[h].returned) + 1].api
                  ELSE last'.ret = NULL
               /\ iter[h].ended => last'.ret = NULL
     /\ last'.op = "iter_free" => apis' = apis
     /\ \A name \in Names :
          (last.op = "iter_free" /\ Registered(name) /\ GetCall(name))
            => last'.ret = plugin_get_api(apis, name)]_vars

\* A traversal returned the two entries in registration order, "json"
\* before the "hdf5" registered again after an unload, and then NULL.
C18_Witness ==
  /\ last.op = "iter_next" /\ last.ret = NULL /\ last.arg = 1
  /\ iter[1].live /\ iter[1].ended
  /\ iter[1].returned = <<"/p/q/json.so", "/p/q/h5.so">>
  /\ Len(apis) = 2

(***************************************************************************)
(* C19  Post-condition of a miss: a get(name) that gets past the fast path *)
(* and whose digest computation succeeds rescans at most once, and on      *)
(* return the cached digest is the digest of the current search path; it   *)
(* returns a descriptor exactly when `name` is registered after that       *)
(* rescan and fails otherwise; when the digest computation fails it does   *)
(* not rescan, leaves the cached digest as it was and fails.  Stated for   *)
(* the calls that obtained the registry.                                   *)
(***************************************************************************)
MissPostcondition(name) ==
  /\ last'.hashed \in {"ok", "failed"}
  /\ last'.hashed = "ok"
       => /\ last'.rescans <= 1
          /\ PathHashCache' = pathshash(SearchPathSet')
          /\ IF Registered(name)'
             THEN last'.ret = plugin_get_api(apis', name) /\ ~crashed'
             ELSE DriverNotFound'
  /\ last'.hashed = "failed"
       => /\ last'.rescans = 0
          /\ PathHashCache' = PathHashCache
          /\ apis' = apis
          /\ DriverNotFound'

C19_MissPostcondition ==
  [][\A name \in Names :
       (/\ last'.op = "get" /\ ~Registered(name)
        /\ storage_plugin_info' # NULL
        /\ GetCall(name))
       => MissPostcondition(name)]_vars

\* C19 with at least one directory on the search path.
C19_MissPostconditionNonEmpty ==
  [][\A name \in Names :
       (/\ last'.op = "get" /\ ~Registered(name)
        /\ storage_plugin_info' # NULL
        /\ SearchPathSet # <<>>
        /\ GetCall(name))
       => MissPostcondition(name)]_vars

(***************************************************************************)
(* Two threads in get_storage_plugin_info() (lines 38-57).  The function   *)
(* takes no lock: each thread runs it statement by statement, interleaved  *)
(* with the other.  A caller may serialise its calls with one lock of its  *)
(* own (`locking`), taken before the call and released after it.           *)
(***************************************************************************)
MaxCalls == 2

Threads == {1, 2}

InitThreads ==
  /\ env \in Environments
  /\ storage_plugin_info = NULL
  /\ paths = <<>>
  /\ apis = <<>>
  /\ storage_plugin_path_hash = ZeroHash
  /\ atexit_hooks = 0
  /\ crashed = FALSE
  /\ last = [op |-> "start", arg |-> NULL, ret |-> NULL, rescans |-> 0, hashed |-> "no"]
  /\ errmsg = NoMessage
  /\ iter = NoIter
  /\ scanned = Untracked
  /\ \E locking \in BOOLEAN :
       threads = [locking   |-> locking,
                  lock      |-> 0,
                  pc        |-> [t \in Threads |-> "idle"],
                  calls     |-> [t \in Threads |-> 0],
                  instances |-> 0]

\* Variant: the registry is created whether or not the static is set.
needs_create_always(info) == TRUE

\* Line 40: `!storage_plugin_info`.
needs_create(info) == info = NULL

Goto(t, label) == [threads EXCEPT !.pc[t] = label]

\* A thread enters a public function, which calls get_storage_plugin_info();
\* a caller that serialises its calls takes its lock first.
thread_call(t) ==
  /\ ~crashed
  /\ threads.pc[t] = "idle"
  /\ threads.calls[t] < MaxCalls
  /\ threads.locking => threads.lock = 0
  /\ threads' = [Goto(t, "test") EXCEPT !.lock = IF threads.locking THEN t ELSE 0]
  /\ UNCHANGED <<env, storage_plugin_info, paths, apis, storage_plugin_path_hash,
                 atexit_hooks, crashed, last, errmsg, iter, scanned>>

\* Line 40: the static is read.
thread_test(t) ==
  /\ ~crashed
  /\ threads.pc[t] = "test"
  /\ threads' = Goto(t, IF needs_create(storage_plugin_info) THEN "create" ELSE "return")
  /\ UNCHANGED <<env, storage_plugin_info, paths, apis, storage_plugin_path_hash,
                 atexit_hooks, crashed, last, errmsg, iter, scanned>>

\* Lines 41-44: the result of plugin_info_create() is stored in the static,
\* a NULL result too.  Whatever the static pointed at before is no longer
\* reachable through it.  A new registry starts with the directories of
\* the environment variable.
thread_create(t) ==
  /\ ~crashed
  /\ threads.pc[t] = "create"
  /\ \E ok \in BOOLEAN :
       /\ storage_plugin_info' = IF ok THEN INFO ELSE NULL
       /\ threads' = [Goto(t, IF ok THEN "atexit" ELSE "return")
                        EXCEPT !.instances = IF ok THEN @ + 1 ELSE @]
       /\ paths' = IF ok THEN env.dirs ELSE <<>>
  /\ apis' = <<>>
  /\ UNCHANGED <<env, storage_plugin_path_hash, atexit_hooks, crashed,
                 last, errmsg, iter, scanned>>

\* Line 45: atexit(storage_plugin_info_free).
thread_atexit(t) ==
  /\ ~crashed
  /\ threads.pc[t] = "atexit"
  /\ atexit_hooks' = atexit_hooks + 1
  /\ threads' = Goto(t, "seed")
  /\ UNCHANGED <<env, storage_plugin_info, paths, apis, storage_plugin_path_hash,
                 crashed, last, errmsg, iter, scanned>>

\* Lines 46-51: the search path of the registry the static points at now
\* is extended with the built-in directory.  When the other thread has stored NULL in the static in the
\* meantime the extension works on a null registry: an invalid access that
\* kills the process or has no effect.
thread_seed(t) ==
  /\ ~crashed
  /\ threads.pc[t] = "seed"
  /\ threads' = Goto(t, "return")
  /\ IF storage_plugin_info # NULL
     THEN paths' = Append(paths, BuiltinDir(env)) /\ crashed' = crashed
     ELSE paths' = paths /\ \E fault \in {"SIGSEGV", "no effect"} :
                               crashed' = (fault = "SIGSEGV")
  /\ UNCHANGED <<env, storage_plugin_info, apis, storage_plugin_path_hash,
                 atexit_hooks, last, errmsg, iter, scanned>>

\* Line 56 and the return of the public function; the caller's lock is
\* released.
thread_return(t) ==
  /\ ~crashed
  /\ threads.pc[t] = "return"
  /\ threads' = [Goto(t, "idle") EXCEPT !.calls[t] = @ + 1, !.lock = 0]
  /\ UNCHANGED <<env, storage_plugin_info, paths, apis, storage_plugin_path_hash,
                 atexit_hooks, crashed, last, errmsg, iter, scanned>>

NextThreads ==
  \E t \in Threads :
    \/ thread_call(t)
    \/ thread_test(t)
    \/ thread_create(t)
    \/ thread_atexit(t)
    \/ thread_seed(t)
    \/ thread_return(t)

SpecThreads == InitThreads /\ [][NextThreads]_vars

(***************************************************************************)
(* C20  Unsynchronised first use is a race: without a lock two threads can *)
(* both find the registry absent and both construct it, so that more than  *)
(* one instance is created and the teardown hook is registered more than   *)
(* once; when all calls are serialised by one lock no such state is        *)
(* reachable.                                                              *)
(***************************************************************************)
C20_RaceOnlyWithoutLock ==
  /\ threads.locking
       => /\ threads.instances <= 1
          /\ atexit_hooks <= 1
          /\ atexit_hooks <= threads.instances
          /\ \A t, u \in Threads :
               (threads.pc[t] # "idle" /\ threads.pc[u] # "idle") => t = u
          /\ ~crashed
  /\ (threads.instances > 1 \/ atexit_hooks > 1) => ~threads.locking

\* Without the lock both threads, each in its first call, found the
\* registry absent and constructed it: two instances, two hooks.
C20_Witness ==
  /\ ~threads.locking
  /\ \A t \in Threads : threads.calls[t] = 0 /\ threads.pc[t] = "seed"
  /\ threads.instances = 2
  /\ atexit_hooks = 2

====
